---- MODULE Spec2Model ----
(***************************************************************************)
(* Model of household_spending/boa_transform.py: the text normalizer, the  *)
(* merchant resolver, money parsing, the mapping rule store, the category  *)
(* cascade of transform() and the learning updater learn_mappings().       *)
(* Text is a TLA+ string; Len, SubSeq and \o act on it character by        *)
(* character.                                                              *)
(***************************************************************************)
EXTENDS Integers, Sequences, FiniteSets, TLC

VARIABLES
    fn_in,      \* argument of the pure function under check
    fn_out,     \* its result
    fn_out2,    \* the result of applying it to its own result
    fn_pc,      \* "idle" | "called" | "recalled"
    mapping,    \* the mapping file (CategoryMapping.csv) on disk
    learn_src,  \* the learn-from file on disk
    learn_log,  \* one entry per learn_mappings call: the file before, the outcome
    source,     \* the source file on disk
    args,       \* the parsed command line of transform_main
    pc,         \* the step transform is at; "off" when no run is in progress
    df,         \* the data frame of transform
    category_mapping,  \* the mapping path: "unset" | "path" | "None"
    rules,      \* the lists exact, contains, regex that _load_mapping returned
    cats,       \* the list cats of the categorisation loop
    provs,      \* the value of prov in each iteration of that loop
    prov_counter,  \* the Counter of stages
    outputs,    \* the files transform has written
    error,      \* the exception that ended the run, "" if none
    rc          \* the exit code transform_main returned, -1 while it runs

fnvars == <<fn_in, fn_out, fn_out2, fn_pc>>

filevars == <<mapping, learn_src, learn_log>>

pipevars ==
    <<source, args, pc, df, category_mapping, rules, cats, provs, prov_counter,
      outputs, error, rc>>

vars == <<fnvars, filevars, pipevars>>

(***************************************************************************)
(* Characters                                                              *)
(***************************************************************************)
LowerLetters == "abcdefghijklmnopqrstuvwxyz"

UpperLetters == "ABCDEFGHIJKLMNOPQRSTUVWXYZ"

Digits == "0123456789"

Ch(s, i) == SubSeq(s, i, i)

CharsOf(s) == {Ch(s, i) : i \in 1..Len(s)}

LowerSet == CharsOf(LowerLetters)

UpperSet == CharsOf(UpperLetters)

DigitSet == CharsOf(Digits)

IsLowerLetter(c) == c \in LowerSet

IsUpperLetter(c) == c \in UpperSet

IsDigit(c) == c \in DigitSet

\* \s of the re module, on the characters of the model
IsSpace(c) == c \in {" ", "\t"}

\* \w of the re module: letters, digits and the underscore
IsWord(c) == IsLowerLetter(c) \/ IsUpperLetter(c) \/ IsDigit(c) \/ c = "_"

IndexIn(c, alphabet) == CHOOSE i \in 1..Len(alphabet) : Ch(alphabet, i) = c

ToLower == [c \in UpperSet |-> Ch(LowerLetters, IndexIn(c, UpperLetters))]

ToUpper == [c \in LowerSet |-> Ch(UpperLetters, IndexIn(c, LowerLetters))]

\* str.lower() on one character
LowerChar(c) == IF IsUpperLetter(c) THEN ToLower[c] ELSE c

\* str.upper() on one character
UpperChar(c) == IF IsLowerLetter(c) THEN ToUpper[c] ELSE c

\* str.lower()
RECURSIVE Lower(_)
Lower(s) == IF s = "" THEN "" ELSE LowerChar(Head(s)) \o Lower(Tail(s))

\* str.strip() / the .strip() at the end of _normalize_ws
RECURSIVE LStrip(_)
LStrip(s) == IF s # "" /\ IsSpace(Head(s)) THEN LStrip(Tail(s)) ELSE s

RECURSIVE RStrip(_)
RStrip(s) ==
    IF s # "" /\ IsSpace(Ch(s, Len(s))) THEN RStrip(SubSeq(s, 1, Len(s) - 1)) ELSE s

Strip(s) == RStrip(LStrip(s))

\* length of the run of digits (\d+) that starts at position i
RECURSIVE DigitRunLen(_, _)
DigitRunLen(s, i) == IF i <= Len(s) /\ IsDigit(Ch(s, i)) THEN 1 + DigitRunLen(s, i + 1) ELSE 0

\* length of the run of whitespace (\s+) that starts at position i
RECURSIVE SpaceRunLen(_, _)
SpaceRunLen(s, i) == IF i <= Len(s) /\ IsSpace(Ch(s, i)) THEN 1 + SpaceRunLen(s, i + 1) ELSE 0

\* x in y of Python strings
Contains(hay, needle) ==
    \E i \in 1..(Len(hay) - Len(needle) + 1) : SubSeq(hay, i, i + Len(needle) - 1) = needle

(***************************************************************************)
(* Text Normalizer: _VENDOR_STRIP_REGEXES, _normalize_ws, _clean_text      *)
(***************************************************************************)
\* re.compile(r"#\d+").sub(" ", t)
RECURSIVE SubHashDigits(_, _)
SubHashDigits(t, i) ==
    IF i > Len(t) THEN ""
    ELSE IF Ch(t, i) = "#" /\ DigitRunLen(t, i + 1) >= 1
         THEN " " \o SubHashDigits(t, i + 1 + DigitRunLen(t, i + 1))
         ELSE Ch(t, i) \o SubHashDigits(t, i + 1)

\* \b at the gap before position i (1..Len(t)+1)
WordBoundary(t, i) ==
    LET before == i > 1 /\ IsWord(Ch(t, i - 1))
        after  == i <= Len(t) /\ IsWord(Ch(t, i))
    IN  before # after

\* re.compile(r"\b\d{3,}\b").sub(" ", t): a digit run is removed when it is
\* three or more long and has a word boundary on both sides
RECURSIVE SubDigitRuns(_, _)
SubDigitRuns(t, i) ==
    IF i > Len(t) THEN ""
    ELSE LET n == DigitRunLen(t, i)
         IN  IF n >= 3 /\ WordBoundary(t, i) /\ WordBoundary(t, i + n)
             THEN " " \o SubDigitRuns(t, i + n)
             ELSE Ch(t, i) \o SubDigitRuns(t, i + 1)

\* re.compile(r"\s{2,}").sub(" ", t)
RECURSIVE SubSpaceRuns(_, _)
SubSpaceRuns(t, i) ==
    IF i > Len(t) THEN ""
    ELSE LET n == SpaceRunLen(t, i)
         IN  IF n >= 2
             THEN " " \o SubSpaceRuns(t, i + n)
             ELSE Ch(t, i) \o SubSpaceRuns(t, i + 1)

\* the characters [a-z0-9 &.'-] that the last strip regex keeps
IsKept(c) == IsLowerLetter(c) \/ IsDigit(c) \/ c \in {" ", "&", ".", "'", "-"}

KeptOrSpace(c) == IF IsKept(c) THEN c ELSE " "

\* re.compile(r"[^a-z0-9 &.'-]").sub(" ", t)
RECURSIVE SubOtherChars(_)
SubOtherChars(t) == IF t = "" THEN "" ELSE KeptOrSpace(Head(t)) \o SubOtherChars(Tail(t))

\* re.sub(r"\s+", " ", s)
RECURSIVE CollapseSpaces(_, _)
CollapseSpaces(s, i) ==
    IF i > Len(s) THEN ""
    ELSE LET n == SpaceRunLen(s, i)
         IN  IF n >= 1
             THEN " " \o CollapseSpaces(s, i + n)
             ELSE Ch(s, i) \o CollapseSpaces(s, i + 1)

_normalize_ws(s) == Strip(CollapseSpaces(s, 1))

\* the loop "for rx in _VENDOR_STRIP_REGEXES: t = rx.sub(' ', t)"
_VENDOR_STRIP_REGEXES(t) ==
    SubOtherChars(SubSpaceRuns(SubDigitRuns(SubHashDigits(t, 1), 1), 1))

_clean_text(s) == _normalize_ws(_VENDOR_STRIP_REGEXES(Lower(s)))

(***************************************************************************)
(* Merchant Resolver: normalize_merchant                                   *)
(***************************************************************************)
_VENDOR_STOPWORDS ==
    {"authorization", "auth", "purchase", "pos", "debit", "credit", "recurring",
     "online", "banking", "transfer", "zelle", "visa", "mastercard", "mc", "card",
     "payment", "payment thank you", "pymt", "apple pay", "google pay", "ach",
     "echeck", "ck", "trnsfr", "fee", "adj", "refund"}

MERCHANT_ALIASES ==
    << <<"the home depot", "Home Depot">>, <<"home depot", "Home Depot">>,
       <<"walmart.com", "Walmart">>, <<"wal-mart", "Walmart">>,
       <<"amazon marketplace", "Amazon">>, <<"amzn mktp", "Amazon">>,
       <<"amzn digital", "Amazon">>, <<"starbucks coffee", "Starbucks">>,
       <<"dunkin donuts", "Dunkin">>, <<"wholefoods", "Whole Foods">>,
       <<"whole foods market", "Whole Foods">>, <<"trader joes", "Trader Joe's">>,
       <<"market basket", "Market Basket">>, <<"stop & shop", "Stop & Shop">>,
       <<"shell oil", "Shell">>, <<"exxonmobil", "Exxon">>,
       <<"geico insurance", "GEICO">> >>

\* the branch/location markers of r"\b(store|stn|st|unit|loc)\b.*$"
LocationMarkers == <<"store", "stn", "st", "unit", "loc">>

\* the acronyms restored after title-casing, with keep.title() of each
KeepAcronyms ==
    << <<"Geico", "GEICO">>, <<"Irs", "IRS">>, <<"Mbta", "MBTA">>, <<"Bp", "BP">>,
       <<"At&T", "AT&T">> >>

\* s.startswith(w, i - 1)
StartsWithAt(s, i, w) == i + Len(w) - 1 <= Len(s) /\ SubSeq(s, i, i + Len(w) - 1) = w

\* desc_clean.split(" "): the pieces between single spaces, empty ones included
RECURSIVE SplitOnSpace(_, _, _)
SplitOnSpace(s, i, cur) ==
    IF i > Len(s) THEN <<cur>>
    ELSE IF Ch(s, i) = " "
         THEN <<cur>> \o SplitOnSpace(s, i + 1, "")
         ELSE SplitOnSpace(s, i + 1, cur \o Ch(s, i))

\* [tok for tok in ... if tok and tok not in _VENDOR_STOPWORDS]
VendorTokens(desc_clean) ==
    SelectSeq(SplitOnSpace(desc_clean, 1, ""),
              LAMBDA tok : tok # "" /\ tok \notin _VENDOR_STOPWORDS)

\* " ".join(tokens)
RECURSIVE JoinSpace(_)
JoinSpace(tokens) ==
    IF tokens = <<>> THEN ""
    ELSE IF Len(tokens) = 1 THEN tokens[1]
         ELSE tokens[1] \o " " \o JoinSpace(Tail(tokens))

\* length of the prefix of s matched by the words, each followed by \s+; 0 if none
RECURSIVE WordsPrefixLen(_, _, _)
WordsPrefixLen(s, i, words) ==
    IF words = <<>> THEN i - 1
    ELSE LET w == Head(words)
             n == SpaceRunLen(s, i + Len(w))
         IN  IF StartsWithAt(s, i, w) /\ n >= 1
             THEN WordsPrefixLen(s, i + Len(w) + n, Tail(words))
             ELSE 0

DropPrefix(s, n) == SubSeq(s, n + 1, Len(s))

\* re.sub(r"^(debit|credit)\s+card\s+purchase\s+", "", base)
StripCardPurchase(base) ==
    LET d == WordsPrefixLen(base, 1, <<"debit", "card", "purchase">>)
        c == WordsPrefixLen(base, 1, <<"credit", "card", "purchase">>)
    IN  IF d > 0 THEN DropPrefix(base, d) ELSE DropPrefix(base, c)

\* re.sub(r"^(purchase|pos)\s+", "", base)
StripPurchasePos(base) ==
    LET u == WordsPrefixLen(base, 1, <<"purchase">>)
        o == WordsPrefixLen(base, 1, <<"pos">>)
    IN  IF u > 0 THEN DropPrefix(base, u) ELSE DropPrefix(base, o)

\* r"\b(store|stn|st|unit|loc)\b" matches at position i
MarkerAt(base, i) ==
    \E m \in 1..Len(LocationMarkers) :
        LET w == LocationMarkers[m]
        IN  /\ StartsWithAt(base, i, w)
            /\ WordBoundary(base, i)
            /\ WordBoundary(base, i + Len(w))

\* re.sub(r"\b(store|stn|st|unit|loc)\b.*$", "", base).strip()
AliasKey(base) ==
    LET hits == {i \in 1..Len(base) : MarkerAt(base, i)}
        first == CHOOSE i \in hits : \A j \in hits : i <= j
    IN  IF hits = {} THEN Strip(base) ELSE Strip(SubSeq(base, 1, first - 1))

\* for k, v in MERCHANT_ALIASES.items(): if k in alias_key: return v
RECURSIVE FirstMerchantAlias(_, _)
FirstMerchantAlias(alias_key, i) ==
    IF i > Len(MERCHANT_ALIASES) THEN ""
    ELSE IF Contains(alias_key, MERCHANT_ALIASES[i][1])
         THEN MERCHANT_ALIASES[i][2]
         ELSE FirstMerchantAlias(alias_key, i + 1)

IsCased(c) == IsLowerLetter(c) \/ IsUpperLetter(c)

\* str.title(): a letter after a letter is lowered, any other letter is raised
RECURSIVE Title(_, _, _)
Title(s, i, prevCased) ==
    IF i > Len(s) THEN ""
    ELSE LET c == Ch(s, i)
         IN  (IF prevCased THEN LowerChar(c) ELSE UpperChar(c))
                 \o Title(s, i + 1, IsCased(c))

\* re.sub(rf"\b{pat}\b", rep, name)
RECURSIVE SubWord(_, _, _, _)
SubWord(name, i, pat, rep) ==
    IF i > Len(name) THEN ""
    ELSE IF /\ StartsWithAt(name, i, pat)
            /\ WordBoundary(name, i)
            /\ WordBoundary(name, i + Len(pat))
         THEN rep \o SubWord(name, i + Len(pat), pat, rep)
         ELSE Ch(name, i) \o SubWord(name, i + 1, pat, rep)

\* for keep in ["GEICO", "IRS", "MBTA", "BP", "AT&T"]: name = re.sub(...)
RECURSIVE RestoreAcronyms(_, _)
RestoreAcronyms(name, k) ==
    IF k > Len(KeepAcronyms) THEN name
    ELSE RestoreAcronyms(SubWord(name, 1, KeepAcronyms[k][1], KeepAcronyms[k][2]), k + 1)

normalize_merchant(desc_clean) ==
    IF desc_clean = "" THEN ""
    ELSE LET base0 == _normalize_ws(JoinSpace(VendorTokens(desc_clean)))
             base  == StripPurchasePos(StripCardPurchase(base0))
             alias_key == AliasKey(base)
             hit   == FirstMerchantAlias(alias_key, 1)
         IN  IF hit # "" THEN hit
             ELSE IF base = "" THEN ""
                  ELSE RestoreAcronyms(Title(base, 1, FALSE), 1)

(***************************************************************************)
(* Money parsing: coerce_money                                             *)
(***************************************************************************)
\* a float is held exactly, as val * 10^-exp with no trailing zero in val
FloatOf(v, e) == [kind |-> "float", val |-> v, exp |-> e]

\* pd.NA, the missing-value sentinel
NA == [kind |-> "NA", val |-> 0, exp |-> 0]

ValueError == [kind |-> "ValueError", val |-> 0, exp |-> 0]

AllDigits(s) == \A i \in 1..Len(s) : IsDigit(Ch(s, i))

DigitValue == [c \in DigitSet |-> IndexIn(c, Digits) - 1]

RECURSIVE DigitsValue(_)
DigitsValue(s) ==
    IF s = "" THEN 0
    ELSE 10 * DigitsValue(SubSeq(s, 1, Len(s) - 1)) + DigitValue[Ch(s, Len(s))]

\* a digit string without its trailing zeros
RECURSIVE StripZeros(_)
StripZeros(s) ==
    IF s # "" /\ Ch(s, Len(s)) = "0" THEN StripZeros(SubSeq(s, 1, Len(s) - 1)) ELSE s

\* float(s) on text without exponent, underscore, "inf" or "nan": optional
\* surrounding whitespace, optional sign, digits with at most one point and
\* a digit on at least one side of it; anything else raises ValueError
PyFloat(s0) ==
    LET s     == Strip(s0)
        signed == s # "" /\ Head(s) \in {"+", "-"}
        sign  == IF signed /\ Head(s) = "-" THEN -1 ELSE 1
        body  == IF signed THEN Tail(s) ELSE s
        dots  == {i \in 1..Len(body) : Ch(body, i) = "."}
        dot   == IF dots = {} THEN Len(body) + 1 ELSE CHOOSE i \in dots : TRUE
        whole == SubSeq(body, 1, dot - 1)
        frac  == StripZeros(SubSeq(body, dot + 1, Len(body)))
    IN  IF /\ Cardinality(dots) <= 1
           /\ AllDigits(whole) /\ AllDigits(SubSeq(body, dot + 1, Len(body)))
           /\ whole \o SubSeq(body, dot + 1, Len(body)) # ""
        THEN FloatOf(sign * DigitsValue(whole \o frac), Len(frac))
        ELSE ValueError

\* s.replace(c, "")
RECURSIVE Remove(_, _)
Remove(s, c) ==
    IF s = "" THEN ""
    ELSE (IF Head(s) = c THEN "" ELSE Head(s)) \o Remove(Tail(s), c)

\* the value a cell holds: a missing value (None / NaN) or text
Missing == [isna |-> TRUE, s |-> ""]

Text(s) == [isna |-> FALSE, s |-> s]

\* coerce_money without the "except ValueError" handler
coerce_money_uncaught(x) ==
    IF x.isna THEN FloatOf(0, 0)
    ELSE LET s1  == Strip(x.s)
             neg == s1 # "" /\ Head(s1) = "(" /\ Ch(s1, Len(s1)) = ")"
             s2  == IF neg THEN SubSeq(s1, 2, Len(s1) - 1) ELSE s1
             val == PyFloat(Strip(Remove(Remove(s2, "$"), ",")))
         IN  IF s1 = "" THEN FloatOf(0, 0)
             ELSE IF neg THEN FloatOf(-val.val, val.exp) ELSE val

coerce_money(x) ==
    IF x.isna THEN FloatOf(0, 0)
    ELSE LET s1  == Strip(x.s)
             neg == s1 # "" /\ Head(s1) = "(" /\ Ch(s1, Len(s1)) = ")"
             s2  == IF neg THEN SubSeq(s1, 2, Len(s1) - 1) ELSE s1
             s3  == Strip(Remove(Remove(s2, "$"), ","))
             val == PyFloat(s3)
         IN  IF s1 = "" THEN FloatOf(0, 0)
             ELSE IF val = ValueError THEN NA
                  ELSE IF neg THEN FloatOf(-val.val, val.exp) ELSE val

(***************************************************************************)
(* Category tables and _canonicalize                                       *)
(***************************************************************************)
CANON ==
    <<"Income", "Transfers", "Fees", "Taxes", "Housing", "Utilities", "Insurance",
      "Healthcare", "Transportation", "Fuel", "Groceries", "Dining", "Shopping",
      "Subscriptions", "Entertainment", "Travel", "Household", "Gifts/Charity",
      "Uncategorized">>

\* the dict ALIASES in insertion order, as <<key, category>> pairs
ALIASES ==
    << <<"atm fee", "Fees">>, <<"service fee", "Fees">>, <<"fee", "Fees">>,
      <<"mortgage", "Housing">>, <<"rent", "Housing">>, <<"hoa", "Housing">>,
      <<"electric", "Utilities">>, <<"water", "Utilities">>, <<"sewer", "Utilities">>,
      <<"gas bill", "Utilities">>, <<"internet", "Utilities">>,
      <<"phone", "Utilities">>, <<"insurance", "Insurance">>,
      <<"doctor", "Healthcare">>, <<"dental", "Healthcare">>,
      <<"pharmacy", "Healthcare">>, <<"medical", "Healthcare">>,
      <<"hospital", "Healthcare">>, <<"transportation", "Transportation">>,
      <<"tolls", "Transportation">>, <<"parking", "Transportation">>,
      <<"fuel", "Fuel">>, <<"gas", "Fuel">>, <<"grocery", "Groceries">>,
      <<"groceries", "Groceries">>, <<"restaurant", "Dining">>, <<"dining", "Dining">>,
      <<"coffee", "Dining">>, <<"shopping", "Shopping">>,
      <<"subscription", "Subscriptions">>, <<"subscriptions", "Subscriptions">>,
      <<"entertainment", "Entertainment">>, <<"travel", "Travel">>,
      <<"airfare", "Travel">>, <<"airline", "Travel">>, <<"hotel", "Travel">>,
      <<"household", "Household">>, <<"gift", "Gifts/Charity">>,
      <<"charity", "Gifts/Charity">>, <<"donation", "Gifts/Charity">>,
      <<"tithe", "Gifts/Charity">>, <<"transfer", "Transfers">>,
      <<"zelle", "Transfers">>, <<"online banking transfer", "Transfers">>,
      <<"salary", "Income">>, <<"payroll", "Income">>, <<"ssa", "Income">>,
      <<"deposit", "Income">>, <<"refund", "Income">>, <<"tax", "Taxes">>,
      <<"irs", "Taxes">> >>

KEYWORD_RULES ==
    << << <<"whole foods", "market basket", "stop & shop", "trader joe", "aldi", "shaw's">>, "Groceries">>,
       << <<"mcdonald", "starbucks", "dunkin", "chipotle", "pizza", "panera", "cafe", "restaurant">>, "Dining">>,
       << <<"shell", "exxon", "bp ", "mobil", "sunoco">>, "Fuel">>,
       << <<"uber", "lyft", "mbta", "amtrak">>, "Transportation">>,
       << <<"comcast", "verizon", "xfinity", "spectrum", "att ", "t-mobile">>, "Utilities">>,
       << <<"netflix", "hulu", "spotify", "max ", "disney+">>, "Subscriptions">>,
       << <<"amazon", "walmart", "target", "costco", "best buy">>, "Shopping">>,
       << <<"marriott", "hilton", "airbnb", "delta", "american airlines", "united airlines", "jetblue">>, "Travel">>,
       << <<"cvs", "walgreens", "rite aid">>, "Healthcare">>,
       << <<"geico", "progressive", "allstate", "state farm">>, "Insurance">>,
       << <<"irs", "tax">>, "Taxes">>,
       << <<"church", "salvation army", "red cross">>, "Gifts/Charity">> >>

\* cat.lower() in ALIASES
IsAliasKey(k) == \E i \in 1..Len(ALIASES) : ALIASES[i][1] = k

\* ALIASES[k]
AliasOf(k) == ALIASES[CHOOSE i \in 1..Len(ALIASES) : ALIASES[i][1] = k][2]

\* c.lower() for c in CANON
CanonLower == [i \in 1..Len(CANON) |-> Lower(CANON[i])]

_canonicalize(cat) ==
    IF cat = "" THEN "Uncategorized"
    ELSE LET low  == Lower(cat)
             hits == {i \in 1..Len(CANON) : CanonLower[i] = low}
         IN  IF hits # {} THEN CANON[CHOOSE i \in hits : \A j \in hits : i <= j]
             ELSE IF IsAliasKey(low) THEN AliasOf(low)
                  ELSE cat

(***************************************************************************)
(* CSV files: the mapping file and the learn-from file                     *)
(***************************************************************************)
\* the texts pd.read_csv reads as a missing value, which fillna("") turns
\* into the empty string
NAValues ==
    {"", "#N/A", "#N/A N/A", "#NA", "-1.#IND", "-1.#QNAN", "-NaN", "-nan", "1.#IND",
     "1.#QNAN", "<NA>", "N/A", "NA", "NULL", "NaN", "None", "n/a", "nan", "null"}

\* one cell through pd.read_csv(path, dtype=str).fillna("")
ReadCell(c) == IF c \in NAValues THEN "" ELSE c

Row(t, p, c) == [type |-> t, pattern |-> p, category |-> c]

ReadRow(r) == Row(ReadCell(r.type), ReadCell(r.pattern), ReadCell(r.category))

\* pd.read_csv(path, dtype=str).fillna("") on the rows that to_csv or the
\* user wrote
ReadCsv(rows) == [i \in DOMAIN rows |-> ReadRow(rows[i])]

\* a file on disk: exists says whether it is there, cols whether it has the
\* required columns, typecol whether it has a "type" column
Absent == [exists |-> FALSE, cols |-> FALSE, typecol |-> FALSE, rows |-> <<>>]

CsvFile(rows) == [exists |-> TRUE, cols |-> TRUE, typecol |-> TRUE, rows |-> rows]

(***************************************************************************)
(* Mapping Rule Store: _load_mapping, _apply_mapping                       *)
(***************************************************************************)
\* re.compile(pattern, flags=re.I) succeeds: a cleaned pattern holds only the
\* characters [a-z0-9 &.'-], all literals but ".", so it always compiles
RegexCompiles(pattern) == \A i \in 1..Len(pattern) : IsKept(Ch(pattern, i))

\* rx.search(desc_clean) for such a pattern: "." matches any character, every
\* other character matches itself
RegexSearch(pattern, desc_clean) ==
    \E i \in 1..(Len(desc_clean) - Len(pattern) + 1) :
        \A j \in 1..Len(pattern) :
            Ch(pattern, j) = "." \/ Ch(pattern, j) = Ch(desc_clean, i + j - 1)

\* m["type"].str.lower().str.strip(), m["pattern"].map(_clean_text),
\* m["category"].map(_canonicalize)
LoadRow(r) == Row(Strip(Lower(r.type)), _clean_text(r.pattern), _canonicalize(r.category))

RulesOfKind(m, kind) ==
    SelectSeq(m, LAMBDA r : r.type = kind /\ r.pattern # "")

NoRules == [raised |-> FALSE, exact |-> <<>>, contains |-> <<>>, regex |-> <<>>]

\* the ValueError "Mapping file ... must have columns: type, pattern, category"
MappingColumnsError == [raised |-> TRUE, exact |-> <<>>, contains |-> <<>>, regex |-> <<>>]

\* the loader, were a file without the three columns read as an empty store
_load_mapping_tolerant(file) ==
    IF ~file.exists THEN NoRules
    ELSE IF ~file.cols THEN NoRules
         ELSE LET raw == ReadCsv(file.rows)
                  m   == [i \in DOMAIN raw |-> LoadRow(raw[i])]
              IN  [raised   |-> FALSE,
                   exact    |-> RulesOfKind(m, "exact"),
                   contains |-> RulesOfKind(m, "contains"),
                   regex    |-> SelectSeq(RulesOfKind(m, "regex"),
                                          LAMBDA r : RegexCompiles(r.pattern))]

_load_mapping(file) ==
    IF ~file.exists THEN NoRules
    ELSE IF ~file.cols THEN MappingColumnsError
         ELSE LET raw == ReadCsv(file.rows)
                  m   == [i \in DOMAIN raw |-> LoadRow(raw[i])]
              IN  [raised   |-> FALSE,
                   exact    |-> RulesOfKind(m, "exact"),
                   contains |-> RulesOfKind(m, "contains"),
                   regex    |-> SelectSeq(RulesOfKind(m, "regex"),
                                          LAMBDA r : RegexCompiles(r.pattern))]

Match(cat, stage) == [cat |-> cat, stage |-> stage]

\* the (None, None) that a matcher returns when nothing matched
NoMatch == Match("", "none")

\* index of the first rule of the list, in load order, that matches; 0 if none
RECURSIVE FirstRule(_, _, _, _)
FirstRule(rule_list, i, desc_clean, kind) ==
    IF i > Len(rule_list) THEN 0
    ELSE IF \/ kind = "exact" /\ desc_clean = rule_list[i].pattern
            \/ kind = "contains" /\ rule_list[i].pattern # ""
                                 /\ Contains(desc_clean, rule_list[i].pattern)
            \/ kind = "regex" /\ RegexSearch(rule_list[i].pattern, desc_clean)
         THEN i
         ELSE FirstRule(rule_list, i + 1, desc_clean, kind)

\* the matcher, were the contains rules tried before the exact rules
_apply_mapping_contains_first(desc_clean, exact, contains, regex) ==
    LET e == FirstRule(exact, 1, desc_clean, "exact")
        c == FirstRule(contains, 1, desc_clean, "contains")
        r == FirstRule(regex, 1, desc_clean, "regex")
    IN  IF c > 0 THEN Match(contains[c].category, "mapping_contains")
        ELSE IF e > 0 THEN Match(exact[e].category, "mapping_exact")
             ELSE IF r > 0 THEN Match(regex[r].category, "mapping_regex")
                  ELSE NoMatch

_apply_mapping(desc_clean, exact, contains, regex) ==
    LET e == FirstRule(exact, 1, desc_clean, "exact")
        c == FirstRule(contains, 1, desc_clean, "contains")
        r == FirstRule(regex, 1, desc_clean, "regex")
    IN  IF e > 0 THEN Match(exact[e].category, "mapping_exact")
        ELSE IF c > 0 THEN Match(contains[c].category, "mapping_contains")
             ELSE IF r > 0 THEN Match(regex[r].category, "mapping_regex")
                  ELSE NoMatch

(***************************************************************************)
(* Built-in rules: _fallback_keyword_rules                                 *)
(***************************************************************************)
\* any(k in haystack for k in keywords)
AnyKeyword(keywords, haystack) ==
    \E k \in 1..Len(keywords) : Contains(haystack, keywords[k])

RECURSIVE FirstKeywordRule(_, _)
FirstKeywordRule(haystack, i) ==
    IF i > Len(KEYWORD_RULES) THEN 0
    ELSE IF AnyKeyword(KEYWORD_RULES[i][1], haystack) THEN i
         ELSE FirstKeywordRule(haystack, i + 1)

RECURSIVE FirstAlias(_, _)
FirstAlias(haystack, i) ==
    IF i > Len(ALIASES) THEN 0
    ELSE IF Contains(haystack, ALIASES[i][1]) THEN i
         ELSE FirstAlias(haystack, i + 1)

_fallback_keyword_rules(haystack) ==
    LET k == FirstKeywordRule(haystack, 1)
        a == FirstAlias(haystack, 1)
    IN  IF k > 0 THEN Match(KEYWORD_RULES[k][2], "keyword_rule")
        ELSE IF a > 0 THEN Match(ALIASES[a][2], "alias_rule")
             ELSE NoMatch

(***************************************************************************)
(* Learning Updater: learn_mappings                                        *)
(***************************************************************************)
\* the printable characters in code point order (the backquote, which a
\* TLA+ string cannot hold, left out), for the string order of sort_values
AsciiOrder ==
    "\t !\"#$%&'()*+,-./0123456789:;<=>?@ABCDEFGHIJKLMNOPQRSTUVWXYZ[\\]^_abcdefghijklmnopqrstuvwxyz{|}~"

\* ord(c)
CodePoint == [c \in CharsOf(AsciiOrder) |-> IndexIn(c, AsciiOrder)]

\* a < b for Python strings
RECURSIVE StrLess(_, _)
StrLess(a, b) ==
    IF b = "" THEN FALSE
    ELSE IF a = "" THEN TRUE
         ELSE IF Head(a) = Head(b) THEN StrLess(Tail(a), Tail(b))
              ELSE CodePoint[Head(a)] < CodePoint[Head(b)]

\* row order of sort_values(["type", "pattern"])
RowLess(r, q) == StrLess(r.type, q.type) \/ (r.type = q.type /\ StrLess(r.pattern, q.pattern))

RECURSIVE InsertSorted(_, _)
InsertSorted(sorted, r) ==
    IF sorted = <<>> THEN <<r>>
    ELSE IF RowLess(r, Head(sorted)) THEN <<r>> \o sorted
         ELSE <<Head(sorted)>> \o InsertSorted(Tail(sorted), r)

\* the store, were it persisted in the order of the merge
SortRowsSkipped(rows) == rows

\* base.sort_values(["type", "pattern"]), a stable sort
RECURSIVE SortRows(_)
SortRows(rows) ==
    IF rows = <<>> THEN <<>>
    ELSE InsertSorted(SortRows(SubSeq(rows, 1, Len(rows) - 1)), rows[Len(rows)])

\* base.drop_duplicates(subset=["type", "pattern"], keep="last")
RECURSIVE DropDuplicatesKeepLast(_)
DropDuplicatesKeepLast(rows) ==
    IF rows = <<>> THEN <<>>
    ELSE LET r    == Head(rows)
             rest == Tail(rows)
         IN  IF \E j \in 1..Len(rest) : rest[j].type = r.type /\ rest[j].pattern = r.pattern
             THEN DropDuplicatesKeepLast(rest)
             ELSE <<r>> \o DropDuplicatesKeepLast(rest)

\* type_col.str.lower().str.strip().replace("", "exact")
LearnType(t) == LET u == Strip(Lower(t)) IN IF u = "" THEN "exact" ELSE u

\* one row of the frame "learned" before the filter
LearnedRow(file, r) ==
    Row(IF file.typecol THEN LearnType(r.type) ELSE "exact",
        _clean_text(r.pattern), _canonicalize(r.category))

\* the filter without its test of the category
LabeledByPatternOnly(r) == r.pattern # ""

\* learned[(learned["pattern"] != "") & (learned["category"] != "Uncategorized")]
Labeled(r) == r.pattern # "" /\ r.category # "Uncategorized"

Learned(file) ==
    LET raw == ReadCsv(file.rows)
    IN  SelectSeq([i \in DOMAIN raw |-> LearnedRow(file, raw[i])], Labeled)

\* one row of the frame "base" after its three columns are normalised
BaseRow(r) == Row(LearnType(r.type), _clean_text(r.pattern), _canonicalize(r.category))

Base(file) ==
    IF file.exists /\ file.cols
    THEN LET raw == ReadCsv(file.rows) IN [i \in DOMAIN raw |-> BaseRow(raw[i])]
    ELSE <<>>

\* r["key"]
Key(r) == r.type \o "\t" \o r.pattern

\* key in existing, for existing = dict(zip(base["key"], base["category"]))
InExisting(base, key) == \E i \in 1..Len(base) : Key(base[i]) = key

\* existing[key]: zip into a dict keeps the last row of a key
Existing(base, key) ==
    LET hits == {i \in 1..Len(base) : Key(base[i]) = key}
    IN  base[CHOOSE i \in hits : \A j \in hits : j <= i].category

NoTally == [add_rows |-> <<>>, dup |-> 0, conf |-> 0]

\* the loop, were a conflicting row appended to add_rows as well as counted
RECURSIVE LearnLoopOverwriting(_, _, _, _)
LearnLoopOverwriting(learned, i, base, tally) ==
    IF i > Len(learned) THEN tally
    ELSE LET r   == learned[i]
             key == Key(r)
         IN  IF InExisting(base, key)
             THEN IF Lower(Existing(base, key)) = Lower(r.category)
                  THEN LearnLoopOverwriting(learned, i + 1, base,
                                            [tally EXCEPT !.dup = @ + 1])
                  ELSE LearnLoopOverwriting(learned, i + 1, base,
                                            [tally EXCEPT !.conf = @ + 1,
                                                          !.add_rows = Append(@, r)])
             ELSE LearnLoopOverwriting(learned, i + 1, base,
                                       [tally EXCEPT !.add_rows = Append(@, r)])

\* the loop "for _, r in learned.iterrows()" from row i on
RECURSIVE LearnLoop(_, _, _, _)
LearnLoop(learned, i, base, tally) ==
    IF i > Len(learned) THEN tally
    ELSE LET r   == learned[i]
             key == Key(r)
         IN  IF InExisting(base, key)
             THEN IF Lower(Existing(base, key)) = Lower(r.category)
                  THEN LearnLoop(learned, i + 1, base, [tally EXCEPT !.dup = @ + 1])
                  ELSE LearnLoop(learned, i + 1, base, [tally EXCEPT !.conf = @ + 1])
             ELSE LearnLoop(learned, i + 1, base,
                            [tally EXCEPT !.add_rows = Append(@, r)])

Counts(a, d, c, t) == [added |-> a, dup |-> d, conf |-> c, total |-> t]

\* what a call leaves behind: the tuple it returns, the mapping file on disk,
\* and its locals learned, base and add_rows
LearnOutcome(ret, file, learned, base, add_rows) ==
    [ret |-> ret, file |-> file, learned |-> learned, base |-> base, add_rows |-> add_rows]

learn_mappings(path_is_none, mapping_file, learn_file) ==
    LET skipped == LearnOutcome(Counts(0, 0, 0, 0), mapping_file, <<>>, <<>>, <<>>)
    IN  IF path_is_none THEN skipped
        ELSE IF ~learn_file.exists THEN skipped
        ELSE IF ~learn_file.cols THEN skipped
        ELSE LET learned == Learned(learn_file)
             IN  IF learned = <<>> THEN skipped
                 ELSE LET base   == Base(mapping_file)
                          tally  == LearnLoop(learned, 1, base, NoTally)
                          merged == base \o tally.add_rows
                          final  == SortRows(DropDuplicatesKeepLast(merged))
                      IN  LearnOutcome(
                              Counts(Len(tally.add_rows), tally.dup, tally.conf, Len(final)),
                              CsvFile(final), learned, base, tally.add_rows)

(***************************************************************************)
(* Transform pipeline: the steps of transform on one source file           *)
(***************************************************************************)
HEADER_CANDIDATES ==
    << <<"Date", "Description">>, <<"Posting Date", "Description">>,
       <<"Date", "Payee">>, <<"Transaction Date", "Description">> >>

\* a line of the source file, its cells joined by commas
RECURSIVE LineText(_)
LineText(cells) ==
    IF cells = <<>> THEN ""
    ELSE IF Len(cells) = 1 THEN cells[1]
         ELSE cells[1] \o "," \o LineText(Tail(cells))

\* number of the first line that holds both tokens of a candidate pair,
\* counting from 1; 0 stands for the ValueError raised when there is none
_find_header_line(lines) ==
    LET hits == {i \in 1..Len(lines) :
                    \E p \in 1..Len(HEADER_CANDIDATES) :
                        /\ Contains(LineText(lines[i]), HEADER_CANDIDATES[p][1])
                        /\ Contains(LineText(lines[i]), HEADER_CANDIDATES[p][2])}
    IN  IF hits = {} THEN 0 ELSE CHOOSE i \in hits : \A j \in hits : i <= j

\* position of the column the first present name selects; 0 stands for None.
\* lower_map keeps the last of the columns whose lower-cased names are equal
_pick_first_present(columns, names) ==
    LET at(n) == {k \in 1..Len(columns) : Lower(columns[k]) = Lower(names[n])}
        found == {n \in 1..Len(names) : at(n) # {}}
    IN  IF found = {} THEN 0
        ELSE LET n == CHOOSE m \in found : \A o \in found : m <= o
             IN  CHOOSE k \in at(n) : \A j \in at(n) : j <= k

\* pd.to_datetime(..., errors="coerce") then strftime("%Y-%m-%d") on one cell
\* of a column written as MM/DD/YYYY; "" stands for NaT
ParseDate(cell) ==
    LET s == Strip(cell)
    IN  IF /\ Len(s) = 10
           /\ Ch(s, 3) = "/" /\ Ch(s, 6) = "/"
           /\ AllDigits(SubSeq(s, 1, 2)) /\ AllDigits(SubSeq(s, 4, 5))
           /\ AllDigits(SubSeq(s, 7, 10))
           /\ DigitsValue(SubSeq(s, 1, 2)) \in 1..12
           /\ DigitsValue(SubSeq(s, 4, 5)) \in 1..28
        THEN SubSeq(s, 7, 10) \o "-" \o SubSeq(s, 1, 2) \o "-" \o SubSeq(s, 4, 5)
        ELSE ""

\* the float NaN
NaN == [kind |-> "NaN", val |-> 0, exp |-> 0]

\* pd.to_numeric(x, errors="coerce") on a result of coerce_money
ToNumeric(x) == IF x.kind = "float" THEN x ELSE NaN

\* val * 10^-exp with the trailing zeros of val removed
RECURSIVE Normalized(_, _)
Normalized(val, exp) ==
    IF exp > 0 /\ val % 10 = 0 THEN Normalized(val \div 10, exp - 1)
    ELSE FloatOf(val, exp)

\* credit - debit, as the decimal difference; the rounding of binary
\* floating point is left out
FloatSub(credit, debit) ==
    IF credit.kind = "NaN" \/ debit.kind = "NaN" THEN NaN
    ELSE LET e == IF credit.exp > debit.exp THEN credit.exp ELSE debit.exp
         IN  Normalized(credit.val * 10^(e - credit.exp) - debit.val * 10^(e - debit.exp), e)

\* the frame before the source is read
NoFrame == [columns |-> <<>>, balance_col |-> 0, rows |-> <<>>]

\* one row of the frame: its source cells and the columns transform adds
FrameRow(i, cells) ==
    [AccountSeq |-> i, cells |-> cells, Date |-> "", Amount |-> NaN, Balance |-> NaN,
     desc |-> "", Merchant |-> "", raw |-> ""]

\* df[col] of one row; 0 selects no column
Cell(row, col) == IF col = 0 THEN "" ELSE row.cells[col]

\* the loop body, were the last branch to append an empty category
CategorizeOneNoDefault(row, rs) ==
    LET user == _apply_mapping(row.desc, rs.exact, rs.contains, rs.regex)
        hay  == Strip(row.desc \o " " \o _clean_text(row.raw))
        key  == _fallback_keyword_rules(hay)
        alias == _clean_text(row.raw)
    IN  IF user.cat # "" THEN Match(_canonicalize(user.cat), user.stage)
        ELSE IF key.cat # "" THEN key
             ELSE IF IsAliasKey(alias) THEN Match(AliasOf(alias), "alias_raw")
                  ELSE Match("", "uncategorized")

\* the loop body with the commented-out "Priority 0" of categorize_row: a
\* non-blank raw category is trusted before any rule
CategorizeOneTrustRaw(row, rs) ==
    LET user == _apply_mapping(row.desc, rs.exact, rs.contains, rs.regex)
        hay  == Strip(row.desc \o " " \o _clean_text(row.raw))
        key  == _fallback_keyword_rules(hay)
        alias == _clean_text(row.raw)
    IN  IF Strip(row.raw) # "" THEN Match(_canonicalize(row.raw), "alias_raw")
        ELSE IF user.cat # "" THEN Match(_canonicalize(user.cat), user.stage)
        ELSE IF key.cat # "" THEN key
             ELSE IF IsAliasKey(alias) THEN Match(AliasOf(alias), "alias_raw")
                  ELSE Match("Uncategorized", "uncategorized")

\* the loop body, were the haystack the description alone
CategorizeOneDescOnly(row, rs) ==
    LET user == _apply_mapping(row.desc, rs.exact, rs.contains, rs.regex)
        hay  == Strip(row.desc)
        key  == _fallback_keyword_rules(hay)
        alias == _clean_text(row.raw)
    IN  IF user.cat # "" THEN Match(_canonicalize(user.cat), user.stage)
        ELSE IF key.cat # "" THEN key
             ELSE IF IsAliasKey(alias) THEN Match(AliasOf(alias), "alias_raw")
                  ELSE Match("Uncategorized", "uncategorized")

\* the body of the loop "for _, row in df.iterrows()" for one row
CategorizeOne(row, rs) ==
    LET user == _apply_mapping(row.desc, rs.exact, rs.contains, rs.regex)
        hay  == Strip(row.desc \o " " \o _clean_text(row.raw))
        key  == _fallback_keyword_rules(hay)
        alias == _clean_text(row.raw)
    IN  IF user.cat # "" THEN Match(_canonicalize(user.cat), user.stage)
        ELSE IF key.cat # "" THEN key
             ELSE IF IsAliasKey(alias) THEN Match(AliasOf(alias), "alias_raw")
                  ELSE Match("Uncategorized", "uncategorized")

\* the keys the report prints from prov_counter
Stages ==
    {"mapping_exact", "mapping_contains", "mapping_regex", "keyword_rule",
     "alias_rule", "alias_raw", "uncategorized"}

\* the frame unc: the distinct (Merchant, pattern) pairs of the rows whose
\* category is "Uncategorized", each with its count
Uncategorized(frame, categories) ==
    LET idx == {i \in 1..Len(categories) : categories[i] = "Uncategorized"}
    IN  {[Merchant |-> frame.rows[i].Merchant, pattern |-> frame.rows[i].desc,
          count |-> Cardinality({j \in idx : /\ frame.rows[j].Merchant = frame.rows[i].Merchant
                                             /\ frame.rows[j].desc = frame.rows[i].desc})]
         : i \in idx}

NoSource == [exists |-> FALSE, lines |-> <<>>]

NoArgs == [category_mapping |-> FALSE, learn |-> FALSE, parquet |-> FALSE, engine |-> FALSE]

\* the columns of unc: loc[..., ["Merchant", "Description (clean)"]], rename
\* and assign give Merchant, pattern, type, category; value_counts over
\* ["Merchant", "pattern"] keeps those two as its index, and
\* reset_index(name="count") turns them and the counts into the columns
UncColumns == <<"Merchant", "pattern">> \o <<"count">>

NoOutputs ==
    [csv |-> <<>>, written |-> FALSE, unc |-> {}, unc_written |-> FALSE,
     unc_columns |-> <<>>, parquet |-> FALSE]

\* no run of transform_main is in progress
PipeOff ==
    /\ source = NoSource
    /\ args = NoArgs
    /\ pc = "off"
    /\ df = NoFrame
    /\ category_mapping = "unset"
    /\ rules = NoRules
    /\ cats = <<>>
    /\ provs = <<>>
    /\ prov_counter = [s \in Stages |-> 0]
    /\ outputs = NoOutputs
    /\ error = ""
    /\ rc = -1

(***************************************************************************)
(* Bounded text                                                            *)
(***************************************************************************)
MaxLen == 4

CleanAlphabet == {"a", "B", "1", "_", "#", " "}

RECURSIVE StringsUpTo(_, _)
StringsUpTo(alphabet, n) ==
    IF n = 0 THEN {""}
    ELSE LET P == StringsUpTo(alphabet, n - 1)
         IN  P \cup {p \o c : p \in P, c \in alphabet}

(***************************************************************************)
(* The normalizer applied to a string and then to its own output           *)
(***************************************************************************)
\* no file is touched while a pure function is checked
NoFiles ==
    /\ mapping = Absent
    /\ learn_src = Absent
    /\ learn_log = <<>>
    /\ PipeOff

InitClean ==
    /\ fn_in \in StringsUpTo(CleanAlphabet, MaxLen)
    /\ fn_out = ""
    /\ fn_out2 = ""
    /\ fn_pc = "idle"
    /\ NoFiles

CleanText ==
    /\ fn_pc = "idle"
    /\ fn_out' = _clean_text(fn_in)
    /\ fn_pc' = "called"
    /\ UNCHANGED <<fn_in, fn_out2, filevars, pipevars>>

CleanTextAgain ==
    /\ fn_pc = "called"
    /\ fn_out2' = _clean_text(fn_out)
    /\ fn_pc' = "recalled"
    /\ UNCHANGED <<fn_in, fn_out, filevars, pipevars>>

NextClean == CleanText \/ CleanTextAgain

SpecClean == InitClean /\ [][NextClean]_vars

\* C3: normalizing an already-normalized string returns it unchanged:
\* _clean_text(_clean_text(s)) = _clean_text(s) for every input s.
C3_CleanIdempotent == fn_pc = "recalled" => fn_out2 = fn_out

\* C15: the output of _clean_text holds no three consecutive digits, no "#",
\* no space at either end and no two consecutive spaces.
C15_DigitRunsRemoved ==
    fn_pc # "idle" =>
        /\ \A i \in 1..(Len(fn_out) - 2) :
               ~(IsDigit(Ch(fn_out, i)) /\ IsDigit(Ch(fn_out, i + 1))
                                       /\ IsDigit(Ch(fn_out, i + 2)))
        /\ \A i \in 1..Len(fn_out) : Ch(fn_out, i) # "#"
        /\ fn_out # "" => (Ch(fn_out, 1) # " " /\ Ch(fn_out, Len(fn_out)) # " ")
        /\ \A i \in 1..(Len(fn_out) - 1) : ~(Ch(fn_out, i) = " " /\ Ch(fn_out, i + 1) = " ")

(***************************************************************************)
(* normalize_merchant applied to a description                             *)
(***************************************************************************)
MerchantNames == {"starbucks", "panera", "joe's", "big y", "dunkin"}

StoreNumbers == {"7", "12", "1234"}

Cities == {"boston", "salem", "new york"}

States == {"ma", "ny"}

\* "<name> store #<digits> <city> <state>"
StoreDescription(name, number, city, state) ==
    name \o " store #" \o number \o " " \o city \o " " \o state

OtherDescriptions ==
    {"", "starbucks store #1234  boston ma", "amzn mktp us*2h3k  seattle wa",
     "pos debit", "geico", "purchase irs", "the home depot unit 5", "st louis bread",
     "mbta stn 5", "at&t loc 9", "starbucks coffee store #12 boston ma"}

InitMerchant ==
    /\ fn_in \in OtherDescriptions \cup
                 {StoreDescription(n, d, c, st) :
                      n \in MerchantNames, d \in StoreNumbers, c \in Cities, st \in States}
    /\ fn_out = ""
    /\ fn_out2 = ""
    /\ fn_pc = "idle"
    /\ NoFiles

NormalizeMerchant ==
    /\ fn_pc = "idle"
    /\ fn_out' = normalize_merchant(fn_in)
    /\ fn_pc' = "called"
    /\ UNCHANGED <<fn_in, fn_out2, filevars, pipevars>>

NextMerchant == NormalizeMerchant

SpecMerchant == InitMerchant /\ [][NextMerchant]_vars

\* C6: for a description "<name> store #<digits> <city> <state>" that matches
\* no merchant-alias key, normalize_merchant returns the title-cased <name>
\* alone; the marker word and what follows it are not in the result.
C6_MerchantDropsLocation ==
    fn_pc = "called" =>
        \A n \in MerchantNames, d \in StoreNumbers, c \in Cities, st \in States :
            (/\ fn_in = StoreDescription(n, d, c, st)
             /\ FirstMerchantAlias(fn_in, 1) = "")
                => fn_out = Title(n, 1, FALSE)

(***************************************************************************)
(* coerce_money applied to a cell                                          *)
(***************************************************************************)
MaxMoneyLen == 4

MoneyAlphabet == {"1", "0", "$", ",", "(", ")", "-", ".", " ", "x"}

\* the inputs of tests/test_transform.py::test_coerce_money_basic
MoneyExamples == {"$1,234.56", "(45.10)", "", "not-a-number"}

InitMoney ==
    /\ fn_in \in {Missing} \cup
                 {Text(s) : s \in MoneyExamples \cup StringsUpTo(MoneyAlphabet, MaxMoneyLen)}
    /\ fn_out = NA
    /\ fn_out2 = NA
    /\ fn_pc = "idle"
    /\ NoFiles

CoerceMoney ==
    /\ fn_pc = "idle"
    /\ fn_out' = coerce_money(fn_in)
    /\ fn_pc' = "called"
    /\ UNCHANGED <<fn_in, fn_out2, filevars, pipevars>>

NextMoney == CoerceMoney

SpecMoney == InitMoney /\ [][NextMoney]_vars

MaxStoreRows == 2

MaxLearnRows == 2

MaxLearnRuns == 2

RECURSIVE SeqsUpTo(_, _)
SeqsUpTo(S, n) ==
    IF n = 0 THEN {<<>>}
    ELSE LET P == SeqsUpTo(S, n - 1)
         IN  P \cup {Append(p, x) : p \in P, x \in S}

\* rows a user (or an earlier run) may have put in the mapping file
StoreRows ==
    {Row("exact", "ab", "Dining"), Row("exact", "ab", "Pets"),
     Row("contains", "b", "gas"), Row("contains", "ab", "Pets")}

\* rows of a labeled learn-from file
LearnRows ==
    {Row("", "ab", "Dining"), Row("Exact ", "AB", "pets"), Row("contains", "b", "coffee"),
     Row("", "x_111", "Fuel"), Row("", "#12", "Dining"), Row("", "b", "")}

\* a file that lacks a required column
MissingColumns == [exists |-> TRUE, cols |-> FALSE, typecol |-> FALSE, rows |-> <<>>]

\* a learn-from file without the optional "type" column
WithoutTypeColumn(rows) == [exists |-> TRUE, cols |-> TRUE, typecol |-> FALSE, rows |-> rows]

MappingFiles ==
    {Absent, MissingColumns} \cup {CsvFile(rows) : rows \in SeqsUpTo(StoreRows, MaxStoreRows)}

LearnFiles ==
    {Absent, MissingColumns, WithoutTypeColumn(<<Row("", "b", "Pets")>>)}
        \cup {CsvFile(rows) : rows \in SeqsUpTo(LearnRows, MaxLearnRows)}

FnIdle ==
    /\ fn_in = ""
    /\ fn_out = ""
    /\ fn_out2 = ""
    /\ fn_pc = "idle"

InitLearn ==
    /\ mapping \in MappingFiles
    /\ learn_src \in LearnFiles
    /\ learn_log = <<>>
    /\ FnIdle
    /\ PipeOff

LearnCall(before, outcome) == [before |-> before, out |-> outcome]

\* one call learn_mappings(mapping_path, learn_src)
LearnRun ==
    /\ Len(learn_log) < MaxLearnRuns
    /\ LET outcome == learn_mappings(FALSE, mapping, learn_src)
       IN  /\ mapping' = outcome.file
           /\ learn_log' = Append(learn_log, LearnCall(mapping, outcome))
    /\ UNCHANGED <<learn_src, fnvars, pipevars>>

NextLearn == LearnRun

SpecLearn == InitLearn /\ [][NextLearn]_vars

\* C4: a second run of learn_mappings on the same labeled input adds nothing:
\* every row the first run added or counted as a duplicate is a duplicate,
\* the conflicts are the first run's conflicts, and the persisted rule count
\* is the count after the first run.
C4_LearnIdempotent ==
    Len(learn_log) >= 2 =>
        LET first  == learn_log[1].out
            second == learn_log[2].out
        IN  /\ second.ret.added = 0
            /\ second.ret.dup = first.ret.added + first.ret.dup
            /\ second.ret.conf = first.ret.conf
            /\ Len(second.file.rows) = Len(first.file.rows)

\* C5: a labeled row whose (type, pattern) key is in the mapping store before
\* the run, with a different category (case-insensitive), is counted as a
\* conflict, and the category persisted for the key is the one the store
\* held before the run.
C5_ConflictSafe ==
    \A n \in 1..Len(learn_log) :
        LET before    == Base(learn_log[n].before)
            out       == learn_log[n].out
            labeled   == Learned(learn_src)
            Held(key) == {before[j].category : j \in {k \in 1..Len(before) : Key(before[k]) = key}}
            conflicts == {i \in 1..Len(labeled) :
                             /\ Held(Key(labeled[i])) # {}
                             /\ \E cat \in Held(Key(labeled[i])) :
                                    Lower(cat) # Lower(labeled[i].category)
                             /\ Lower(Existing(before, Key(labeled[i])))
                                    # Lower(labeled[i].category)}
        IN  (learn_src.exists /\ learn_src.cols) =>
                /\ out.ret.conf = Cardinality(conflicts)
                /\ \A i \in conflicts :
                       LET kept == {j \in 1..Len(out.file.rows) :
                                        Key(out.file.rows[j]) = Key(labeled[i])}
                       IN  /\ Cardinality(kept) = 1
                           /\ \A j \in kept :
                                  out.file.rows[j].category
                                      = Existing(before, Key(labeled[i]))

C5_Witness ==
    /\ Len(learn_log) >= 1
    /\ learn_log[1].out.ret.conf >= 1
    /\ learn_log[1].out.ret.added >= 1
    /\ learn_log[1].out.file # learn_log[1].before

\* C10: learn_mappings adds no rule whose normalized pattern is empty and no
\* rule whose canonicalized category is "Uncategorized"; such rows of the
\* labeled input are counted in none of added, duplicate, conflicting.
C10_UnlabeledNeverLearned ==
    \A n \in 1..Len(learn_log) :
        LET out     == learn_log[n].out
            before  == Base(learn_log[n].before)
            cells   == ReadCsv(learn_src.rows)
            labeled == {i \in 1..Len(cells) :
                            /\ _clean_text(cells[i].pattern) # ""
                            /\ _canonicalize(cells[i].category) # "Uncategorized"}
            Fresh(r) == r.pattern # "" /\ r.category # "Uncategorized"
        IN  (learn_src.exists /\ learn_src.cols) =>
                /\ out.ret.added + out.ret.dup + out.ret.conf = Cardinality(labeled)
                /\ \A k \in 1..Len(out.add_rows) : Fresh(out.add_rows[k])
                /\ \/ out.file = learn_log[n].before
                   \/ \A j \in 1..Len(out.file.rows) :
                          \/ \E k \in 1..Len(before) : before[k] = out.file.rows[j]
                          \/ Fresh(out.file.rows[j])

C10_Witness ==
    /\ Len(learn_log) >= 1
    /\ learn_src.rows = <<Row("", "b", ""), Row("contains", "b", "coffee")>>
    /\ learn_log[1].out.ret.added = 1
    /\ learn_log[1].out.ret.dup + learn_log[1].out.ret.conf = 0

\* C11: a learn_mappings call that reaches to_csv persists rows of which no
\* two have the same (type, pattern), in strictly ascending order of
\* (type, pattern), and returns their number as the total.
C11_StoreUniqueSorted ==
    \A n \in 1..Len(learn_log) :
        LET out  == learn_log[n].out
            rows == out.file.rows
        IN  out.learned # <<>> =>
                /\ out.file.exists /\ out.file.cols
                /\ \A i, j \in 1..Len(rows) :
                       i < j => /\ <<rows[i].type, rows[i].pattern>>
                                       # <<rows[j].type, rows[j].pattern>>
                                /\ \/ StrLess(rows[i].type, rows[j].type)
                                   \/ /\ rows[i].type = rows[j].type
                                      /\ StrLess(rows[i].pattern, rows[j].pattern)
                /\ out.ret.total = Len(rows)

\* a call that persisted at least two rules from a store that held one key
\* twice and was not in sorted order
C11_Witness ==
    /\ Len(learn_log) >= 1
    /\ learn_log[1].out.learned # <<>>
    /\ Len(learn_log[1].out.file.rows) >= 2
    /\ LET base == learn_log[1].out.base
       IN  /\ \E i, j \in 1..Len(base) : i < j /\ Key(base[i]) = Key(base[j])
           /\ Len(learn_log[1].out.file.rows) < Len(base) + Len(learn_log[1].out.add_rows)

\* C14: when the labeled rows that survive the filter hold a key twice, with
\* categories that differ case-insensitively, and the store does not hold
\* the key, the call adds one row for the key, counts a conflict, and
\* persists the category of the first of the rows for it.
C14_FirstSeenWins ==
    \A n \in 1..Len(learn_log) :
        LET out     == learn_log[n].out
            labeled == out.learned
            base    == Base(learn_log[n].before)
        IN  \A i, j \in 1..Len(labeled) :
                (/\ i < j
                 /\ Key(labeled[i]) = Key(labeled[j])
                 /\ Lower(labeled[i].category) # Lower(labeled[j].category)
                 /\ \A h \in 1..(i - 1) : Key(labeled[h]) # Key(labeled[i])
                 /\ \A b \in 1..Len(base) : Key(base[b]) # Key(labeled[i]))
                    => /\ Cardinality({k \in 1..Len(out.add_rows) :
                                          Key(out.add_rows[k]) = Key(labeled[i])}) = 1
                       /\ out.ret.conf >= 1
                       /\ \E r \in 1..Len(out.file.rows) :
                              Key(out.file.rows[r]) = Key(labeled[i])
                       /\ \A r \in 1..Len(out.file.rows) :
                              Key(out.file.rows[r]) = Key(labeled[i])
                                  => out.file.rows[r].category = labeled[i].category

\* C19: for a learn_mappings call that persists the store and a description
\* D that a user rule resolves under the store as loaded before the call, if
\* no row the call added matches D, then D resolves to the same category
\* under the store as loaded after the call.
C19_LearnKeepsResolution ==
    \A n \in 1..Len(learn_log) :
        LET out    == learn_log[n].out
            before == _load_mapping(learn_log[n].before)
            after  == _load_mapping(out.file)
            Hits(r, D) == \/ r.type = "exact" /\ r.pattern = D
                          \/ r.type = "contains" /\ r.pattern # "" /\ Contains(D, r.pattern)
                          \/ r.type = "regex" /\ RegexSearch(r.pattern, D)
        IN  (out.learned # <<>> /\ ~before.raised) =>
                \A D \in {"ab", "b", "cab", "x 111"} :
                    LET was == _apply_mapping(D, before.exact, before.contains, before.regex)
                        is  == _apply_mapping(D, after.exact, after.contains, after.regex)
                    IN  (/\ was.cat # ""
                         /\ \A k \in 1..Len(out.add_rows) : ~Hits(out.add_rows[k], D))
                            => is.cat = was.cat

(***************************************************************************)
(* transform_main: one run of the pipeline on a source file                *)
(***************************************************************************)
MaxSourceRows == 2

\* the data lines of a source file: date, description, amount, category
SourceCells ==
    {<<"01/05/2024", "UBER #1234", "(45.10)", "">>,
     <<"bad", "Shell_111", "$1,234.56", "Fuel">>,
     <<"01/06/2024", "zzz", "abc", "Dining">>,
     <<"", "qq_111", "", "">>}

SourceOf(lines) == [exists |-> TRUE, lines |-> lines]

\* a source file that is missing, that has a header transform accepts, with
\* or without leading metadata lines, or that has a header it rejects
SourceFiles ==
    {NoSource}
    \cup {SourceOf(<< <<"Date", "Description", "Amount", "Category">> >> \o rows) :
             rows \in SeqsUpTo(SourceCells, MaxSourceRows)}
    \cup {SourceOf(<< <<"Account summary">>, <<" Posting Date", "Payee", "Debit", "Credit">>, r >>) :
             r \in SourceCells}
    \cup {SourceOf(<<h, <<"01/05/2024", "UBER #1234", "(45.10)", "">> >>) :
             h \in {<<"Due Date", "Description", "Amount", "Category">>,
                    <<"Date", "Description", "Balance", "Category">>,
                    <<"Posted", "Description", "Amount", "Category">>}}

\* the mapping file at the path the run would use
PipeMappingFiles ==
    {Absent, MissingColumns,
     CsvFile(<<Row("exact", "uber", "Pets"), Row("contains", "ub", "Dining")>>),
     CsvFile(<<Row("contains", "ub", "Dining"), Row("Exact ", "UBER", "Pets")>>),
     CsvFile(<<Row("regex", "z.z", "gas"), Row("contains", "qq", "")>>)}

\* the learn-from file of a run with --learn
PipeLearnFiles ==
    {Absent, MissingColumns,
     CsvFile(<<Row("", "qq_111", "Pets")>>),
     CsvFile(<<Row("", "zzz", "Hobby"), Row("", "zzz", "Pets")>>)}

\* the command lines: --category-mapping given or not, --learn, --parquet
\* with or without a Parquet engine installed
ArgSets ==
    {[category_mapping |-> m, learn |-> l, parquet |-> FALSE, engine |-> FALSE] :
        m \in BOOLEAN, l \in BOOLEAN}
    \cup {[category_mapping |-> TRUE, learn |-> FALSE, parquet |-> TRUE, engine |-> e] :
             e \in BOOLEAN}

Init ==
    /\ FnIdle
    /\ args \in ArgSets
    /\ source \in SourceFiles
    /\ mapping \in PipeMappingFiles
    /\ learn_src \in (IF args.learn THEN PipeLearnFiles ELSE {Absent})
    /\ learn_log = <<>>
    /\ pc = "start"
    /\ df = NoFrame
    /\ category_mapping = "unset"
    /\ rules = NoRules
    /\ cats = <<>>
    /\ provs = <<>>
    /\ prov_counter = [s \in Stages |-> 0]
    /\ outputs = NoOutputs
    /\ error = ""
    /\ rc = -1

\* an exception leaves transform; transform_main prints it and returns 1
Raise(e) ==
    /\ pc' = "done"
    /\ error' = e
    /\ rc' = 1

\* the step to the next statement of transform
Goto(next) ==
    /\ pc' = next
    /\ UNCHANGED <<error, rc>>

\* if not source.exists(): raise FileNotFoundError
CheckSource ==
    /\ pc = "start"
    /\ IF ~source.exists THEN Raise("FileNotFoundError: Source file not found")
       ELSE Goto("read")
    /\ UNCHANGED <<fnvars, filevars, source, args, df, category_mapping, rules, cats,
                   provs, prov_counter, outputs>>

\* _find_header_line, pd.read_csv(skiprows=header_line), the stripped column
\* names and the columns Account, AccountSeq
ReadSource ==
    /\ pc = "read"
    /\ LET h == _find_header_line(source.lines)
       IN  IF h = 0
           THEN Raise("ValueError: Could not find header row") /\ UNCHANGED df
           ELSE /\ df' = [columns |-> [k \in DOMAIN source.lines[h] |->
                                          Strip(source.lines[h][k])],
                          balance_col |-> 0,
                          rows |-> [i \in 1..(Len(source.lines) - h) |->
                                       FrameRow(i, source.lines[h + i])]]
                /\ Goto("date")
    /\ UNCHANGED <<fnvars, filevars, source, args, category_mapping, rules, cats,
                   provs, prov_counter, outputs>>

\* the column Date
PickDate ==
    /\ pc = "date"
    /\ LET date_col == _pick_first_present(df.columns,
                                           <<"Date", "Posting Date", "Transaction Date">>)
       IN  IF date_col = 0
           THEN Raise("ValueError: No date column found.") /\ UNCHANGED df
           ELSE /\ df' = [df EXCEPT !.rows = [i \in DOMAIN df.rows |->
                             [df.rows[i] EXCEPT !.Date = ParseDate(Cell(df.rows[i], date_col))]]]
                /\ Goto("amount")
    /\ UNCHANGED <<fnvars, filevars, source, args, category_mapping, rules, cats,
                   provs, prov_counter, outputs>>

\* the columns Amount and Running Balance (num)
ComputeAmount ==
    /\ pc = "amount"
    /\ LET debit_col   == _pick_first_present(df.columns,
                              <<"Debit", "Debits", "Withdrawal", "Withdrawals">>)
           credit_col  == _pick_first_present(df.columns,
                              <<"Credit", "Credits", "Deposit", "Deposits">>)
           amount_col  == _pick_first_present(df.columns, <<"Amount", "Transaction Amount">>)
           balance_col == _pick_first_present(df.columns, <<"Running Balance", "Balance">>)
           Money(row, col) == ToNumeric(coerce_money(Text(Cell(row, col))))
           Side(row, col)  == IF col = 0 THEN FloatOf(0, 0) ELSE Money(row, col)
           Amount(row) ==
               IF debit_col # 0 \/ credit_col # 0
               THEN FloatSub(Side(row, credit_col), Side(row, debit_col))
               ELSE Money(row, amount_col)
       IN  IF debit_col = 0 /\ credit_col = 0 /\ amount_col = 0
           THEN Raise("ValueError: No amount columns found.") /\ UNCHANGED df
           ELSE /\ df' = [df EXCEPT
                            !.balance_col = balance_col,
                            !.rows = [i \in DOMAIN df.rows |->
                               [df.rows[i] EXCEPT
                                  !.Amount = Amount(df.rows[i]),
                                  !.Balance = IF balance_col = 0 THEN NaN
                                              ELSE Money(df.rows[i], balance_col)]]]
                /\ Goto("clean")
    /\ UNCHANGED <<fnvars, filevars, source, args, category_mapping, rules, cats,
                   provs, prov_counter, outputs>>

\* the columns Description (clean), Merchant and Category (raw)
CleanDescriptions ==
    /\ pc = "clean"
    /\ LET desc_col == _pick_first_present(df.columns,
                                           <<"Description", "Payee", "Memo", "Details">>)
           cat_cols == {k \in 1..Len(df.columns) : df.columns[k] = "Category"}
           cat_col  == IF cat_cols = {} THEN 0
                       ELSE CHOOSE k \in cat_cols : \A j \in cat_cols : k <= j
           Desc(row) == IF desc_col = 0 THEN "" ELSE _clean_text(Cell(row, desc_col))
       IN  df' = [df EXCEPT !.rows = [i \in DOMAIN df.rows |->
                     [df.rows[i] EXCEPT
                        !.desc = Desc(df.rows[i]),
                        !.Merchant = normalize_merchant(Desc(df.rows[i])),
                        !.raw = Cell(df.rows[i], cat_col)]]]
    /\ Goto("path")
    /\ UNCHANGED <<fnvars, filevars, source, args, category_mapping, rules, cats,
                   provs, prov_counter, outputs>>

\* the default path: a CategoryMapping.csv that exists next to the source or
\* in the sibling directory mappings, else None
_default_mapping_path_for(file) == IF file.exists THEN "path" ELSE "None"

\* if category_mapping is None: category_mapping = _default_mapping_path_for(source)
ResolveMappingPath ==
    /\ pc = "path"
    /\ category_mapping' = IF args.category_mapping THEN "path"
                           ELSE _default_mapping_path_for(mapping)
    /\ Goto("learn")
    /\ UNCHANGED <<fnvars, filevars, source, args, df, rules, cats, provs,
                   prov_counter, outputs>>

\* if learn and learn_from: learn_mappings(category_mapping, learn_from);
\* transform_main always passes a learn_from path
Learn ==
    /\ pc = "learn"
    /\ IF args.learn
       THEN LET outcome == learn_mappings(category_mapping = "None", mapping, learn_src)
            IN  /\ mapping' = outcome.file
                /\ learn_log' = Append(learn_log, LearnCall(mapping, outcome))
       ELSE UNCHANGED <<mapping, learn_log>>
    /\ Goto("load")
    /\ UNCHANGED <<fnvars, learn_src, source, args, df, category_mapping, rules, cats,
                   provs, prov_counter, outputs>>

\* exact, contains, regex = _load_mapping(category_mapping) if category_mapping
\* else ([], [], [])
LoadMapping ==
    /\ pc = "load"
    /\ LET loaded == IF category_mapping = "path" THEN _load_mapping(mapping) ELSE NoRules
       IN  IF loaded.raised
           THEN Raise("ValueError: Mapping file must have columns: type, pattern, category")
                /\ UNCHANGED rules
           ELSE rules' = loaded /\ Goto("rows")
    /\ UNCHANGED <<fnvars, filevars, source, args, df, category_mapping, cats, provs,
                   prov_counter, outputs>>

\* one iteration of the loop over df.iterrows()
CategorizeRow ==
    /\ pc = "rows"
    /\ Len(cats) < Len(df.rows)
    /\ LET m == CategorizeOne(df.rows[Len(cats) + 1], rules)
       IN  /\ cats' = Append(cats, m.cat)
           /\ provs' = Append(provs, m.stage)
           /\ prov_counter' = [prov_counter EXCEPT ![m.stage] = @ + 1]
    /\ UNCHANGED <<fnvars, filevars, source, args, pc, df, category_mapping, rules,
                   outputs, error, rc>>

\* df["Category"] = cats, the transformed file, the uncategorized file when
\* unc is not empty, the Parquet file when asked for, and the return
WriteOutputs ==
    /\ pc = "rows"
    /\ Len(cats) = Len(df.rows)
    /\ outputs' = [csv     |-> [i \in DOMAIN df.rows |->
                                   [AccountSeq |-> df.rows[i].AccountSeq,
                                    Date       |-> df.rows[i].Date,
                                    Amount     |-> df.rows[i].Amount,
                                    Category   |-> cats[i],
                                    Merchant   |-> df.rows[i].Merchant,
                                    desc       |-> df.rows[i].desc]],
                   written |-> TRUE,
                   unc     |-> Uncategorized(df, cats),
                   unc_written |-> Uncategorized(df, cats) # {},
                   unc_columns |-> IF Uncategorized(df, cats) # {} THEN UncColumns
                                   ELSE <<>>,
                   parquet |-> args.parquet /\ args.engine]
    /\ IF args.parquet /\ ~args.engine
       THEN Raise("ImportError: no Parquet engine")
       ELSE pc' = "done" /\ rc' = 0 /\ UNCHANGED error
    /\ UNCHANGED <<fnvars, filevars, source, args, df, category_mapping, rules, cats,
                   provs, prov_counter>>

Next ==
    \/ CheckSource
    \/ ReadSource
    \/ PickDate
    \/ ComputeAmount
    \/ CleanDescriptions
    \/ ResolveMappingPath
    \/ Learn
    \/ LoadMapping
    \/ CategorizeRow
    \/ WriteOutputs

Spec == Init /\ [][Next]_vars

(***************************************************************************)
(* Properties of the run                                                   *)
(***************************************************************************)
\* C1: every categorised row takes its category from the first stage that
\* matches, in the order exact user rule, contains user rule, regex user
\* rule, built-in keyword rule, alias scan, default; within a stage the first
\* rule in load order gives the category. A description that equals an
\* exact rule's pattern therefore has stage mapping_exact and that rule's
\* category, whatever else matches and wherever the rule stands in the file.
C1_CascadePriority ==
    \A i \in 1..Len(cats) :
        LET d   == df.rows[i].desc
            hay == Strip(d \o " " \o _clean_text(df.rows[i].raw))
            ex  == {k \in 1..Len(rules.exact) : rules.exact[k].pattern = d}
            co  == {k \in 1..Len(rules.contains) : Contains(d, rules.contains[k].pattern)}
            re  == {k \in 1..Len(rules.regex) : RegexSearch(rules.regex[k].pattern, d)}
            kw  == {k \in 1..Len(KEYWORD_RULES) :
                       \E t \in 1..Len(KEYWORD_RULES[k][1]) :
                           Contains(hay, KEYWORD_RULES[k][1][t])}
            al  == {k \in 1..Len(ALIASES) : Contains(hay, ALIASES[k][1])}
            First(S) == CHOOSE k \in S : \A j \in S : k <= j
        IN  IF ex # {}
            THEN provs[i] = "mapping_exact" /\ cats[i] = rules.exact[First(ex)].category
            ELSE IF co # {}
            THEN provs[i] = "mapping_contains"
                 /\ cats[i] = rules.contains[First(co)].category
            ELSE IF re # {}
            THEN provs[i] = "mapping_regex" /\ cats[i] = rules.regex[First(re)].category
            ELSE IF kw # {}
            THEN provs[i] = "keyword_rule" /\ cats[i] = KEYWORD_RULES[First(kw)][2]
            ELSE IF al # {}
            THEN provs[i] = "alias_rule" /\ cats[i] = ALIASES[First(al)][2]
            ELSE provs[i] = "uncategorized" /\ cats[i] = "Uncategorized"

\* a row whose description equals an exact rule's pattern, is matched by a
\* contains rule that stands before it in the file and holds the keyword
\* trigger "uber" has been resolved by the exact rule
C1_Witness ==
    /\ mapping.exists /\ mapping.cols /\ Len(mapping.rows) >= 2
    /\ Strip(Lower(mapping.rows[1].type)) = "contains"
    /\ \E i \in 1..Len(cats) :
          /\ df.rows[i].desc = "uber"
          /\ \E k \in 1..Len(rules.contains) : Contains("uber", rules.contains[k].pattern)
          /\ provs[i] = "mapping_exact"
          /\ cats[i] = "Pets"

\* C2: the loop gives every row it has processed exactly one category and
\* one stage, counted once in prov_counter; a run that returns 0 has
\* processed every row; no category is empty, and each is a member of CANON
\* or is a category written in the mapping file.
C2_TotalCoverage ==
    /\ Len(provs) = Len(cats)
    /\ Len(cats) <= Len(df.rows)
    /\ rc = 0 => Len(cats) = Len(df.rows)
    /\ \A s \in Stages : prov_counter[s] = Cardinality({i \in 1..Len(provs) : provs[i] = s})
    /\ \A i \in 1..Len(cats) :
          /\ provs[i] \in Stages
          /\ cats[i] # ""
          /\ \/ \E c \in 1..Len(CANON) : CANON[c] = cats[i]
             \/ \E k \in 1..Len(mapping.rows) : ReadCell(mapping.rows[k].category) = cats[i]

\* a finished run of two rows, one with the user-coined category Pets and
\* one that fell through to the default
C2_Witness ==
    /\ pc = "done" /\ rc = 0
    /\ Len(cats) = 2
    /\ \E i, j \in 1..2 : cats[i] = "Pets" /\ cats[j] = "Uncategorized"
    /\ prov_counter["uncategorized"] = 1

\* C8: in a run with --learn the learn step has ended before the store is
\* loaded, no row is categorised before the load, and every exact, contains
\* or regex rule the learn step added is in the loaded rule lists.
C8_LearnBeforeResolve ==
    /\ (args.learn /\ pc \in {"load", "rows"}) => Len(learn_log) = 1
    /\ cats # <<>> => (pc = "rows" \/ outputs.written)
    /\ (args.learn /\ (pc = "rows" \/ outputs.written)) =>
          \A k \in 1..Len(learn_log[1].out.add_rows) :
              LET r == learn_log[1].out.add_rows[k]
              IN  r.type \in {"exact", "contains", "regex"} =>
                      \E j \in 1..Len(rules[r.type]) : rules[r.type][j] = r

C12_UncategorizedOutput ==
    outputs.written =>
        LET idx == {i \in 1..Len(cats) : cats[i] = "Uncategorized"}
            Pair(i) == <<df.rows[i].Merchant, df.rows[i].desc>>
            has(c) == \E k \in 1..Len(outputs.unc_columns) :
                          Lower(outputs.unc_columns[k]) = c
        IN  /\ outputs.unc_written <=> idx # {}
            /\ outputs.unc_written =>
                   /\ \A i \in idx : \E u \in outputs.unc :
                          /\ <<u.Merchant, u.pattern>> = Pair(i)
                          /\ u.count = Cardinality({j \in idx : Pair(j) = Pair(i)})
                   /\ Cardinality(outputs.unc) = Cardinality({Pair(i) : i \in idx})
                   /\ has("type") /\ has("category") /\ has("pattern")

(***************************************************************************)
(* The loop body applied to one description under two raw categories       *)
(***************************************************************************)
\* normalized descriptions
ResolveDescriptions == {"", "uber", "lyft", "zzz", "qq 111", "shell 111"}

\* raw Category cells: every key of the alias table, and some other texts
ResolveRawCategories ==
    {"", "Coffee", " Dining", "junk"} \cup {ALIASES[k][1] : k \in 1..Len(ALIASES)}

\* the raw Category cell of the second row
OtherRawCategories == {"", "Dining", "junk"}

ResolveMappingFiles ==
    (PipeMappingFiles \ {MissingColumns})
    \cup {CsvFile(<<Row("regex", "uber|lyft", "Rides")>>),
          CsvFile(<<Row("contains", "zz", "Pets"), Row("regex", "LY.T", "Rides")>>)}

\* a row of the frame with the two columns the loop body reads
ResolveRow(desc, raw) == [FrameRow(1, <<>>) EXCEPT !.desc = desc, !.raw = raw]

InitResolve ==
    /\ fn_in \in [desc : ResolveDescriptions, raw : ResolveRawCategories,
                   raw2 : OtherRawCategories]
    /\ fn_out = NoMatch
    /\ fn_out2 = NoMatch
    /\ fn_pc = "idle"
    /\ mapping \in ResolveMappingFiles
    /\ learn_src = Absent
    /\ learn_log = <<>>
    /\ PipeOff

\* exact, contains, regex = _load_mapping(category_mapping)
LoadRules ==
    /\ fn_pc = "idle"
    /\ rules' = _load_mapping(mapping)
    /\ fn_pc' = "loaded"
    /\ UNCHANGED <<fn_in, fn_out, fn_out2, filevars, source, args, pc, df, category_mapping,
                   cats, provs, prov_counter, outputs, error, rc>>

\* the loop body on two rows that differ only in Category (raw)
ResolvePair ==
    /\ fn_pc = "loaded"
    /\ fn_out' = CategorizeOne(ResolveRow(fn_in.desc, fn_in.raw), rules)
    /\ fn_out2' = CategorizeOne(ResolveRow(fn_in.desc, fn_in.raw2), rules)
    /\ fn_pc' = "called"
    /\ UNCHANGED <<fn_in, filevars, pipevars>>

NextResolve == LoadRules \/ ResolvePair

SpecResolve == InitResolve /\ [][NextResolve]_vars

\* C13: when some exact, contains or regex rule of the loaded lists matches
\* the description, two rows that differ only in their raw category get the
\* same category and the same stage; rows whose results differ were both
\* resolved by a keyword, alias-scan, raw-alias or default stage.
C13_RawNeverShortCircuits ==
    fn_pc = "called" =>
        LET d == fn_in.desc
            matched == \/ \E k \in 1..Len(rules.exact) : rules.exact[k].pattern = d
                       \/ \E k \in 1..Len(rules.contains) :
                              Contains(d, rules.contains[k].pattern)
                       \/ \E k \in 1..Len(rules.regex) :
                              RegexSearch(rules.regex[k].pattern, d)
            user == {"mapping_exact", "mapping_contains", "mapping_regex"}
        IN  /\ matched => (fn_out = fn_out2 /\ fn_out.stage \in user)
            /\ fn_out # fn_out2 => (fn_out.stage \notin user /\ fn_out2.stage \notin user)

\* a description that an exact rule matches, resolved for the raw category
\* "dining" (an alias key) and for an empty one
C13_Witness ==
    /\ fn_pc = "called"
    /\ fn_in.desc = "uber" /\ fn_in.raw = "dining" /\ fn_in.raw2 = ""
    /\ fn_out.stage = "mapping_exact"
    /\ fn_out2 = fn_out

\* C16: when no exact or contains rule matches the description and some
\* regex-kind row of the mapping file has a pattern that, as written in the
\* file, matches it by case-insensitive search, the row has the stage
\* mapping_regex and the category of the first such row. The patterns as
\* written are alternations ("|") of literals and ".".
C16_RegexAsWritten ==
    fn_pc = "called" =>
        LET d     == fn_in.desc
            file  == ReadCsv(mapping.rows)
            Alts(p) == {ab \in (1..Len(p)) \X (1..Len(p)) :
                           /\ ab[1] <= ab[2]
                           /\ ab[1] = 1 \/ Ch(p, ab[1] - 1) = "|"
                           /\ ab[2] = Len(p) \/ Ch(p, ab[2] + 1) = "|"
                           /\ \A i \in ab[1]..ab[2] : Ch(p, i) # "|"}
            Search(p) == \E ab \in Alts(p) : RegexSearch(Lower(SubSeq(p, ab[1], ab[2])), d)
            hits  == {k \in 1..Len(file) : /\ Strip(Lower(file[k].type)) = "regex"
                                           /\ Search(file[k].pattern)}
            other == \/ \E k \in 1..Len(rules.exact) : rules.exact[k].pattern = d
                     \/ \E k \in 1..Len(rules.contains) :
                            Contains(d, rules.contains[k].pattern)
        IN  (~other /\ hits # {}) =>
                /\ fn_out.stage = "mapping_regex"
                /\ fn_out.cat = _canonicalize(file[CHOOSE k \in hits :
                                                      \A j \in hits : k <= j].category)

\* C17: when no user rule matches the description, the description holds no
\* keyword trigger and no alias key, and the normalized raw category is
\* exactly an alias-table key k, the row's category is ALIASES[k].
C17_RawCategoryAlias ==
    fn_pc = "called" =>
        LET d    == fn_in.desc
            k    == _clean_text(fn_in.raw)
            user == \/ \E i \in 1..Len(rules.exact) : rules.exact[i].pattern = d
                    \/ \E i \in 1..Len(rules.contains) : Contains(d, rules.contains[i].pattern)
                    \/ \E i \in 1..Len(rules.regex) : RegexSearch(rules.regex[i].pattern, d)
            trigger == \E i \in 1..Len(KEYWORD_RULES) : \E t \in 1..Len(KEYWORD_RULES[i][1]) :
                           Contains(d, KEYWORD_RULES[i][1][t])
            scan == \E i \in 1..Len(ALIASES) : Contains(d, ALIASES[i][1])
        IN  (~user /\ ~trigger /\ ~scan /\ \E i \in 1..Len(ALIASES) : ALIASES[i][1] = k)
                => \A i \in 1..Len(ALIASES) : ALIASES[i][1] = k => fn_out.cat = ALIASES[i][2]

\* C18: no row gets the stage alias_raw: whenever the normalized raw category
\* is exactly an alias-table key, the haystack (description, a space, the
\* normalized raw category, stripped) contains that key, and the row was
\* resolved by a user rule, a keyword rule or the alias scan.
C18_AliasRawNeverRecorded ==
    fn_pc = "called" =>
        /\ fn_out.stage # "alias_raw"
        /\ fn_out2.stage # "alias_raw"
        /\ LET k   == _clean_text(fn_in.raw)
               hay == Strip(fn_in.desc \o " " \o k)
           IN  (\E i \in 1..Len(ALIASES) : ALIASES[i][1] = k) =>
                   /\ Contains(hay, k)
                   /\ fn_out.stage \in {"mapping_exact", "mapping_contains", "mapping_regex",
                                         "keyword_rule", "alias_rule"}

\* a row with an empty description whose raw category is the alias key
\* "parking" was resolved by the alias scan
C18_Witness ==
    /\ fn_pc = "called"
    /\ fn_in.desc = "" /\ fn_in.raw = "parking"
    /\ fn_out = Match("Transportation", "alias_rule")

====
